---- MODULE Spec2Model ----
(***************************************************************************)
(* Songs API (src/main.py): a FastAPI service over an SQLite file with two *)
(* tables, songs and translations.  The model keeps the two tables, the    *)
(* per-connection foreign-key setting SQLite applies, and the last request *)
(* with its response.  Every handler opens its own connection; what a      *)
(* connection wrote reaches the file only at db.commit(), and a connection *)
(* closed without commit (an exception leaving the `async with`) loses its *)
(* pending statements.                                                     *)
(***************************************************************************)
EXTENDS Integers, Sequences, FiniteSets, Bags, TLC

VARIABLES songs, translations, foreign_keys, resp, pc, req, txn, lock, reply, changed

vars == <<songs, translations, foreign_keys, resp, pc, req, txn, lock, reply, changed>>

(***************************************************************************)
(* Bounds and input alphabets.                                             *)
(***************************************************************************)
\* Longest translations list a request payload carries.
MaxTranslations == 2

SongNumbers == {"S1", "S2"}
Languages == {"en", "fr"}
\* Values of title_ta / text_ta; "" is a legal str and is falsy in Python.
Strs == {"", "a"}

\* Optional[T]: None is the empty tuple, a present value v is <<v>>.
None == <<>>
Some(v) == <<v>>
Opt(S) == {None} \cup {Some(v) : v \in S}
\* Python truthiness of an Optional[str]: None and "" are falsy.
Truthy(o) == o # None /\ o[1] # ""
\* Python truthiness of an Optional[List]: None and [] are falsy.
TruthyList(o) == o # None /\ o[1] # <<>>

\* class Translation
Translation(language, title, text) == [language |-> language, title |-> title, text |-> text]
\* Translation payloads the requests draw from.
TranslationInputs ==
    {Translation("en", "x", "x"), Translation("en", "y", "y"), Translation("fr", "x", "x")}

SeqsUpTo(S, n) == UNION {[1..k -> S] : k \in 0..n}
TranslationLists == SeqsUpTo(TranslationInputs, MaxTranslations)

\* class Song
Song(song_number, title_ta, text_ta, trs) ==
    [song_number |-> song_number, title_ta |-> title_ta, text_ta |-> text_ta, translations |-> trs]
SongInputs ==
    {Song(s, ti, te, l) : s \in SongNumbers, ti \in Strs, te \in Strs, l \in TranslationLists}

\* class SongUpdate
SongUpdate(title_ta, text_ta, trs) ==
    [title_ta |-> title_ta, text_ta |-> text_ta, translations |-> trs]
SongUpdateInputs ==
    {SongUpdate(ti, te, l) : ti \in Opt(Strs), te \in Opt(Strs), l \in Opt(TranslationLists)}

\* DATA_FILE (line 9): absent (None), or a JSON array of Song-shaped items.
DataFiles ==
    { None,
      Some(<< Song("S1", "a", "a", <<Translation("en", "x", "x"), Translation("fr", "x", "x")>>) >>),
      Some(<< Song("S1", "a", "", <<Translation("en", "y", "y"), Translation("en", "x", "x")>>),
              Song("S1", "", "a", <<>>),
              Song("S2", "a", "a", <<Translation("fr", "x", "x")>>) >>) }

(***************************************************************************)
(* The store: the schema of init_db and the SQL statements the handlers    *)
(* issue.  A table is a bag of rows, so that a duplicate row is a state    *)
(* the model can express; the constraints of the schema are enforced by    *)
(* the statements, as SQLite enforces them.  The AUTOINCREMENT id of a     *)
(* translations row is read by no statement and is left out.               *)
(***************************************************************************)
SongRow(s, ti, te) == [song_number |-> s, title_ta |-> ti, text_ta |-> te]
TrRow(s, t) == [song_number |-> s, language |-> t.language, title |-> t.title, text |-> t.text]

Store(sg, tr) == [songs |-> sg, translations |-> tr]

\* CREATE TABLE IF NOT EXISTS on a new file: both tables empty.
init_db == Store(EmptyBag, EmptyBag)

RECURSIVE BagToSeq(_)
\* The rows of a result set, in some fixed order (the source states no ORDER BY).
BagToSeq(B) ==
    IF DOMAIN B = {} THEN <<>>
    ELSE LET r == CHOOSE x \in DOMAIN B : TRUE
         IN  <<r>> \o BagToSeq(B (-) SetToBag({r}))

\* The rows `hit` of table B (those a WHERE clause selects), with their counts.
Where(B, hit) == [r \in hit |-> B[r]]

RECURSIVE Copies(_, _)
Copies(B, S) ==
    IF S = {} THEN 0
    ELSE LET r == CHOOSE x \in S : TRUE IN B[r] + Copies(B, S \ {r})

\* UPDATE B SET ... WHERE ...: every row r in the domain of `new` becomes new[r].
UpdateWhere(B, new) ==
    LET hit  == DOMAIN new
        keep == [r \in DOMAIN B \ hit |-> B[r]]
        img  == {new[r] : r \in hit}
    IN  keep (+) [q \in img |-> Copies(B, {r \in hit : new[r] = q})]

HasSong(store, s) == \E r \in DOMAIN store.songs : r.song_number = s
HasTranslation(store, s, language) ==
    \E r \in DOMAIN store.translations : r.song_number = s /\ r.language = language

\* The outcome of a statement: ok = FALSE is aiosqlite.IntegrityError, store untouched.
Done(store) == [ok |-> TRUE, store |-> store]
IntegrityError(store) == [ok |-> FALSE, store |-> store]

\* FOREIGN KEY(song_number) REFERENCES songs(song_number), checked only when the
\* connection enforces foreign keys.
ForeignKeyFails(fk, store, s) == fk /\ ~HasSong(store, s)

\* INSERT OR REPLACE INTO songs ... in place of the plain INSERT.
InsertSong_OrReplace(store, s, ti, te) ==
    LET others == {r \in DOMAIN store.songs : r.song_number # s}
    IN  Done([store EXCEPT !.songs = Where(@, others) (+) SetToBag({SongRow(s, ti, te)})])

\* INSERT INTO songs ... : song_number TEXT PRIMARY KEY.
InsertSong(store, s, ti, te) ==
    IF HasSong(store, s) THEN IntegrityError(store)
    ELSE Done([store EXCEPT !.songs = @ (+) SetToBag({SongRow(s, ti, te)})])

\* INSERT INTO translations ... : UNIQUE(song_number, language) and the foreign key.
InsertTranslation(fk, store, s, t) ==
    IF HasTranslation(store, s, t.language) \/ ForeignKeyFails(fk, store, s)
    THEN IntegrityError(store)
    ELSE Done([store EXCEPT !.translations = @ (+) SetToBag({TrRow(s, t)})])

\* INSERT OR IGNORE INTO songs ...
InsertOrIgnoreSong(store, s, ti, te) ==
    IF HasSong(store, s) THEN Done(store)
    ELSE Done([store EXCEPT !.songs = @ (+) SetToBag({SongRow(s, ti, te)})])

\* INSERT OR REPLACE INTO translations ... in place of OR IGNORE.
InsertOrIgnoreTranslation_Replace(fk, store, s, t) ==
    LET others == {r \in DOMAIN store.translations :
                      ~(r.song_number = s /\ r.language = t.language)}
    IN  IF ForeignKeyFails(fk, store, s) THEN IntegrityError(store)
        ELSE Done([store EXCEPT !.translations = Where(@, others) (+) SetToBag({TrRow(s, t)})])

\* INSERT OR IGNORE INTO translations ... : OR IGNORE skips a UNIQUE conflict, not a
\* foreign-key failure.
InsertOrIgnoreTranslation(fk, store, s, t) ==
    IF HasTranslation(store, s, t.language) THEN Done(store)
    ELSE IF ForeignKeyFails(fk, store, s) THEN IntegrityError(store)
    ELSE Done([store EXCEPT !.translations = @ (+) SetToBag({TrRow(s, t)})])

\* The UPDATE without its WHERE clause.
UpdateSongFields_NoWhere(store, s, upd) ==
    LET new == [r \in DOMAIN store.songs |->
                   [r EXCEPT !.title_ta = IF Truthy(upd.title_ta) THEN upd.title_ta[1] ELSE @,
                             !.text_ta  = IF Truthy(upd.text_ta) THEN upd.text_ta[1] ELSE @]]
    IN  Done([store EXCEPT !.songs = UpdateWhere(@, new)])

\* UPDATE songs SET {fields} WHERE song_number=? , fields built from the truthy ones.
UpdateSongFields(store, s, upd) ==
    LET new == [r \in {q \in DOMAIN store.songs : q.song_number = s} |->
                   [r EXCEPT !.title_ta = IF Truthy(upd.title_ta) THEN upd.title_ta[1] ELSE @,
                             !.text_ta  = IF Truthy(upd.text_ta) THEN upd.text_ta[1] ELSE @]]
    IN  Done([store EXCEPT !.songs = UpdateWhere(@, new)])

\* ON CONFLICT(song_number, language) DO NOTHING in place of DO UPDATE.
UpsertTranslation_DoNothing(fk, store, s, t) ==
    IF HasTranslation(store, s, t.language) THEN Done(store)
    ELSE IF ForeignKeyFails(fk, store, s) THEN IntegrityError(store)
    ELSE Done([store EXCEPT !.translations = @ (+) SetToBag({TrRow(s, t)})])

\* INSERT INTO translations ... ON CONFLICT(song_number, language) DO UPDATE SET
\* title=excluded.title, text=excluded.text
UpsertTranslation(fk, store, s, t) ==
    LET new == [r \in {q \in DOMAIN store.translations :
                           q.song_number = s /\ q.language = t.language} |->
                   [r EXCEPT !.title = t.title, !.text = t.text]]
    IN  IF HasTranslation(store, s, t.language)
        THEN Done([store EXCEPT !.translations = UpdateWhere(@, new)])
        ELSE IF ForeignKeyFails(fk, store, s) THEN IntegrityError(store)
        ELSE Done([store EXCEPT !.translations = @ (+) SetToBag({TrRow(s, t)})])

\* DELETE FROM songs WHERE song_number=? ; ON DELETE CASCADE acts only when the
\* connection enforces foreign keys.
DeleteSong(fk, store, s) ==
    Done([songs |-> Where(store.songs, {r \in DOMAIN store.songs : r.song_number # s}),
          translations |->
              IF fk THEN Where(store.translations,
                               {r \in DOMAIN store.translations : r.song_number # s})
              ELSE store.translations])

\* SELECT song_number, title_ta, text_ta FROM songs [WHERE song_number=?]
SelectSongs(store, song_number) ==
    BagToSeq(Where(store.songs,
                   {r \in DOMAIN store.songs :
                       song_number = None \/ r.song_number = song_number[1]}))

\* SELECT language, title, text FROM translations WHERE song_number=? [AND language=?]
SelectTranslations(store, s, language) ==
    LET rows == BagToSeq(Where(store.translations,
                               {r \in DOMAIN store.translations :
                                   /\ r.song_number = s
                                   /\ language = None \/ r.language = language[1]}))
    IN  [i \in 1..Len(rows) |-> Translation(rows[i].language, rows[i].title, rows[i].text)]

(***************************************************************************)
(* Connections.  A handler's statements act on its connection's pending    *)
(* view of the store; db.commit() publishes the view, and leaving the      *)
(* `async with aiosqlite.connect(...)` block without commit discards it.   *)
(***************************************************************************)
\* A connection that commits when it is closed.
Close_Commits(committed, pending) == pending

\* await db.commit()
Commit(committed, pending) == pending
\* The connection is closed with statements pending (no commit was reached).
Close(committed, pending) == committed

Response(status, store, body) == [status |-> status, store |-> store, body |-> body]

(***************************************************************************)
(* The handlers, as functions of the committed store and the request.      *)
(***************************************************************************)
\* `if language:` (lines 85, 114): a falsy language selects every translation.
LanguageFilter(language) == IF Truthy(language) THEN language ELSE None

\* GET /songs
get_songs(store, language) ==
    LET rows == SelectSongs(store, None)
    IN  Response(200, store,
            [i \in 1..Len(rows) |->
                Song(rows[i].song_number, rows[i].title_ta, rows[i].text_ta,
                     SelectTranslations(store, rows[i].song_number, LanguageFilter(language)))])

\* GET /songs/{song_number}
get_song(store, song_number, language) ==
    LET rows == SelectSongs(store, Some(song_number))
    IN  IF rows = <<>> THEN Response(404, store, <<>>)
        ELSE LET row == rows[1]
             IN  Response(200, store,
                     << Song(row.song_number, row.title_ta, row.text_ta,
                             SelectTranslations(store, row.song_number,
                                                LanguageFilter(language))) >>)

RECURSIVE InsertTranslations(_, _, _, _)
\* `for t in song.translations: await db.execute(INSERT ...)`: stops at the first error.
InsertTranslations(fk, store, s, ts) ==
    IF ts = <<>> THEN Done(store)
    ELSE LET r == InsertTranslation(fk, store, s, Head(ts))
         IN  IF r.ok THEN InsertTranslations(fk, r.store, s, Tail(ts)) ELSE r

\* POST /songs
create_song(fk, store, song) ==
    LET r1 == InsertSong(store, song.song_number, song.title_ta, song.text_ta)
    IN  IF ~r1.ok THEN Response(400, Close(store, r1.store), <<>>)
        ELSE LET r2 == InsertTranslations(fk, r1.store, song.song_number, song.translations)
             IN  IF ~r2.ok THEN Response(500, Close(store, r2.store), <<>>)
                 ELSE Response(201, Commit(store, r2.store), <<song>>)

RECURSIVE UpsertTranslations(_, _, _, _)
\* `for t in song.translations: await db.execute(INSERT ... ON CONFLICT ...)`
UpsertTranslations(fk, store, s, ts) ==
    IF ts = <<>> THEN Done(store)
    ELSE LET r == UpsertTranslation(fk, store, s, Head(ts))
         IN  IF r.ok THEN UpsertTranslations(fk, r.store, s, Tail(ts)) ELSE r

\* update_song without the existence check of lines 151-153.
update_song_Unchecked(fk, store, song_number, song) ==
    LET r1 == IF Truthy(song.title_ta) \/ Truthy(song.text_ta)
              THEN UpdateSongFields(store, song_number, song)
              ELSE Done(store)
        r2 == IF TruthyList(song.translations)
              THEN UpsertTranslations(fk, r1.store, song_number, song.translations[1])
              ELSE r1
    IN  IF ~r2.ok THEN Response(500, Close(store, r2.store), <<>>)
        ELSE LET now == Commit(store, r2.store)
                 got == get_song(now, song_number, None)
             IN  Response(got.status, now, got.body)

\* PATCH /songs/{song_number}
update_song(fk, store, song_number, song) ==
    IF SelectSongs(store, Some(song_number)) = <<>> THEN Response(404, Close(store, store), <<>>)
    ELSE LET r1 == IF Truthy(song.title_ta) \/ Truthy(song.text_ta)
                   THEN UpdateSongFields(store, song_number, song)
                   ELSE Done(store)
             r2 == IF TruthyList(song.translations)
                   THEN UpsertTranslations(fk, r1.store, song_number, song.translations[1])
                   ELSE r1
         IN  IF ~r2.ok THEN Response(500, Close(store, r2.store), <<>>)
             ELSE LET now == Commit(store, r2.store)
                      got == get_song(now, song_number, None)
                  IN  Response(got.status, now, got.body)

\* DELETE /songs/{song_number}
delete_song(fk, store, song_number) ==
    LET r == DeleteSong(fk, store, song_number)
    IN  Response(204, Commit(store, r.store), <<>>)

\* One `for item in data` round: the song, then its translations.
LoadItem(fk, store, item) ==
    LET r == InsertOrIgnoreSong(store, item.song_number, item.title_ta, item.text_ta)
        RECURSIVE Each(_, _)
        Each(st, ts) ==
            IF ts = <<>> THEN Done(st)
            ELSE LET q == InsertOrIgnoreTranslation(fk, st, item.song_number, Head(ts))
                 IN  IF q.ok THEN Each(q.store, Tail(ts)) ELSE q
    IN  Each(r.store, item.translations)

RECURSIVE LoadItems(_, _, _)
LoadItems(fk, store, data) ==
    IF data = <<>> THEN Done(store)
    ELSE LET r == LoadItem(fk, store, Head(data))
         IN  IF r.ok THEN LoadItems(fk, r.store, Tail(data)) ELSE r

\* The bootstrap loader: a no-op without the file, else insert-if-absent and one commit.
load_initial_data(fk, store, data_file) ==
    IF data_file = None THEN store
    ELSE LET r == LoadItems(fk, store, data_file[1])
         IN  IF r.ok THEN Commit(store, r.store) ELSE Close(store, r.store)

\* init_db on an existing file creates nothing (IF NOT EXISTS); then the loader runs.
startup_event(fk, store, data_file) == load_initial_data(fk, store, data_file)

(***************************************************************************)
(* Requests served one at a time: each action is one whole handler, taken  *)
(* when no response is outstanding; resp holds the request and its         *)
(* response until Respond hands the response over.                         *)
(***************************************************************************)
db == Store(songs, translations)

\* The request being answered and its response.
Resp(op, song_number, language, payload, status, body) ==
    [op |-> op, song_number |-> song_number, language |-> language,
     payload |-> payload, status |-> status, body |-> body]

conc == <<pc, req, txn, lock, reply, changed>>

Idle == Resp("idle", None, None, None, 0, <<>>)

Serve(op, song_number, language, payload, r) ==
    /\ LET out == r
       IN  /\ songs' = out.store.songs
           /\ translations' = out.store.translations
           /\ resp' = Resp(op, song_number, language, payload, out.status, out.body)
    /\ UNCHANGED <<foreign_keys, conc>>

StartupEvent ==
    \E f \in DataFiles :
        /\ resp = Idle
        /\ Serve("startup_event", None, None, f,
                 Response(0, startup_event(foreign_keys, db, f), <<>>))

GetSongs ==
    \E language \in Opt(Languages \cup {""}) :
        /\ resp = Idle
        /\ Serve("get_songs", None, language, None, get_songs(db, language))

GetSong ==
    \E s \in SongNumbers, language \in Opt(Languages \cup {""}) :
        /\ resp = Idle
        /\ Serve("get_song", Some(s), language, None, get_song(db, s, language))

CreateSong ==
    \E song \in SongInputs :
        /\ resp = Idle
        /\ Serve("create_song", Some(song.song_number), None, Some(song),
                 create_song(foreign_keys, db, song))

UpdateSong ==
    \E s \in SongNumbers, song \in SongUpdateInputs :
        /\ resp = Idle
        /\ Serve("update_song", Some(s), None, Some(song),
                 update_song(foreign_keys, db, s, song))

DeleteSongRequest ==
    \E s \in SongNumbers :
        /\ resp = Idle
        /\ Serve("delete_song", Some(s), None, None, delete_song(foreign_keys, db, s))

\* The response leaves; the next request may be taken.
Respond ==
    /\ resp # Idle
    /\ resp' = Idle
    /\ UNCHANGED <<songs, translations, foreign_keys, conc>>

Procs == {"update", "delete"}
At(label, i) == [at |-> label, i |-> i]
NoReply == [status |-> 0, body |-> <<>>]

ConcInit ==
    /\ pc = [p \in Procs |-> At("idle", 0)]
    /\ req = None
    /\ txn = [p \in Procs |-> None]
    /\ lock = None
    /\ reply = [p \in Procs |-> NoReply]
    /\ changed = FALSE

\* The file does not exist before the first start; the service answers after startup.
\* No handler issues PRAGMA foreign_keys, so whether a connection enforces the foreign
\* key of line 49 is the default of the SQLite build in use (off unless compiled on).
Init ==
    /\ foreign_keys \in BOOLEAN
    /\ \E f \in DataFiles :
          LET st == startup_event(foreign_keys, init_db, f)
          IN  /\ songs = st.songs
              /\ translations = st.translations
              /\ resp = Resp("startup_event", None, None, f, 0, <<>>)
    /\ ConcInit

Next ==
    \/ StartupEvent
    \/ GetSongs
    \/ GetSong
    \/ CreateSong
    \/ UpdateSong
    \/ DeleteSongRequest
    \/ Respond

Spec == Init /\ [][Next]_vars

(***************************************************************************)
(* A PATCH and a DELETE of the same song_number in flight together, each   *)
(* on its own connection.  One action is one awaited statement.  SQLite    *)
(* lets one connection write at a time: the first write statement of a     *)
(* connection opens its transaction and takes the write lock, which        *)
(* commit or close gives back; a statement that finds the lock taken waits *)
(* or, when the busy timeout runs out, raises OperationalError.            *)
(***************************************************************************)
\* The PATCH bodies of the concurrent runs.
RaceInputs ==
    {SongUpdate(ti, None, l) :
        ti \in {None, Some("a")},
        l \in {None, Some(<<Translation("en", "y", "y")>>),
               Some(<<Translation("en", "x", "x"), Translation("fr", "x", "x")>>)}}

\* What connection p reads: its own pending view, else the committed file.
View(p) == IF txn[p] = None THEN db ELSE txn[p][1]
CanWrite(p) == lock = None \/ lock = Some(p)

\* Both requests arrive.
Arrive ==
    /\ \A p \in Procs : pc[p].at = "idle"
    /\ \E s \in SongNumbers, song \in RaceInputs :
          req' = Some([song_number |-> s, song |-> song])
    /\ pc' = [p \in Procs |-> IF p = "update" THEN At("select", 0) ELSE At("delete", 0)]
    /\ reply' = [p \in Procs |-> NoReply]
    /\ changed' = FALSE
    /\ UNCHANGED <<songs, translations, foreign_keys, resp, txn, lock>>

\* Connection p executes a write statement whose outcome is r and goes on at `next`;
\* an IntegrityError leaves the `async with` block: the connection closes, 500.
Write(p, r, next) ==
    /\ CanWrite(p)
    /\ IF r.ok
       THEN /\ txn' = [txn EXCEPT ![p] = Some(r.store)]
            /\ lock' = Some(p)
            /\ pc' = [pc EXCEPT ![p] = next]
            /\ UNCHANGED reply
       ELSE /\ txn' = [txn EXCEPT ![p] = None]
            /\ lock' = IF lock = Some(p) THEN None ELSE lock
            /\ pc' = [pc EXCEPT ![p] = At("done", 0)]
            /\ reply' = [reply EXCEPT ![p] = [status |-> 500, body |-> <<>>]]
    /\ UNCHANGED <<songs, translations, foreign_keys, resp, req, changed>>

\* db.commit() of connection p: its pending view becomes the file.
CommitTxn(p, next, answer) ==
    /\ LET now == IF txn[p] = None THEN db ELSE Commit(db, txn[p][1])
       IN  /\ songs' = now.songs
           /\ translations' = now.translations
           /\ changed' = IF p = "update" THEN now # db ELSE changed
    /\ txn' = [txn EXCEPT ![p] = None]
    /\ lock' = IF lock = Some(p) THEN None ELSE lock
    /\ pc' = [pc EXCEPT ![p] = next]
    /\ reply' = [reply EXCEPT ![p] = answer]
    /\ UNCHANGED <<foreign_keys, resp, req>>

\* update_song, lines 151-153: the existence check.
UpdateSelect ==
    /\ pc["update"].at = "select"
    /\ IF SelectSongs(View("update"), Some(req[1].song_number)) = <<>>
       THEN /\ pc' = [pc EXCEPT !["update"] = At("done", 0)]
            /\ reply' = [reply EXCEPT !["update"] = [status |-> 404, body |-> <<>>]]
       ELSE /\ pc' = [pc EXCEPT !["update"] = At("update_fields", 0)]
            /\ UNCHANGED reply
    /\ UNCHANGED <<songs, translations, foreign_keys, resp, req, txn, lock, changed>>

\* update_song, lines 154-164: the UPDATE, when a primary field is truthy.
UpdateFields ==
    /\ pc["update"].at = "update_fields"
    /\ IF Truthy(req[1].song.title_ta) \/ Truthy(req[1].song.text_ta)
       THEN Write("update",
                  UpdateSongFields(View("update"), req[1].song_number, req[1].song),
                  At("upsert", 1))
       ELSE /\ pc' = [pc EXCEPT !["update"] = At("upsert", 1)]
            /\ UNCHANGED <<songs, translations, foreign_keys, resp, req, txn, lock,
                           reply, changed>>

\* update_song, lines 165-170: one upsert of the loop, or the loop's end.
UpdateUpsert ==
    /\ pc["update"].at = "upsert"
    /\ LET i  == pc["update"].i
           ts == IF TruthyList(req[1].song.translations) THEN req[1].song.translations[1]
                 ELSE <<>>
       IN  IF i <= Len(ts)
           THEN Write("update",
                      UpsertTranslation(foreign_keys, View("update"), req[1].song_number, ts[i]),
                      At("upsert", i + 1))
           ELSE /\ pc' = [pc EXCEPT !["update"] = At("commit", 0)]
                /\ UNCHANGED <<songs, translations, foreign_keys, resp, req, txn, lock,
                               reply, changed>>

\* update_song, line 171.
UpdateCommit ==
    /\ pc["update"].at = "commit"
    /\ CommitTxn("update", At("get_song", 0), reply["update"])

\* update_song, line 172 -> get_song, lines 104-111: a new connection reads the song row.
UpdateGetSong ==
    /\ pc["update"].at = "get_song"
    /\ LET rows == SelectSongs(db, Some(req[1].song_number))
       IN  IF rows = <<>>
           THEN /\ pc' = [pc EXCEPT !["update"] = At("done", 0)]
                /\ reply' = [reply EXCEPT !["update"] = [status |-> 404, body |-> <<>>]]
           ELSE /\ pc' = [pc EXCEPT !["update"] = At("get_translations", 0)]
                /\ reply' = [reply EXCEPT !["update"] =
                               [status |-> 0,
                                body |-> << Song(rows[1].song_number, rows[1].title_ta,
                                                 rows[1].text_ta, <<>>) >>]]
    /\ UNCHANGED <<songs, translations, foreign_keys, resp, req, txn, lock, changed>>

\* get_song, lines 122-128: the translations of the row read before.
UpdateGetTranslations ==
    /\ pc["update"].at = "get_translations"
    /\ LET row == reply["update"].body[1]
       IN  reply' = [reply EXCEPT !["update"] =
                        [status |-> 200,
                         body |-> << [row EXCEPT !.translations =
                                         SelectTranslations(db, row.song_number, None)] >>]]
    /\ pc' = [pc EXCEPT !["update"] = At("done", 0)]
    /\ UNCHANGED <<songs, translations, foreign_keys, resp, req, txn, lock, changed>>

\* delete_song, line 177.
DeleteExecute ==
    /\ pc["delete"].at = "delete"
    /\ Write("delete", DeleteSong(foreign_keys, View("delete"), req[1].song_number),
             At("commit", 0))

\* delete_song, lines 178-179.
DeleteCommit ==
    /\ pc["delete"].at = "commit"
    /\ CommitTxn("delete", At("done", 0), [status |-> 204, body |-> <<>>])

\* The busy timeout of a write statement runs out while the other connection holds
\* the write lock: OperationalError, the connection closes without commit, 500.
Busy ==
    \E p \in Procs :
        /\ pc[p].at \in {"update_fields", "upsert", "delete"}
        /\ p = "update" /\ pc[p].at = "update_fields"
              => Truthy(req[1].song.title_ta) \/ Truthy(req[1].song.text_ta)
        /\ p = "update" /\ pc[p].at = "upsert"
              => /\ TruthyList(req[1].song.translations)
                 /\ pc[p].i <= Len(req[1].song.translations[1])
        /\ ~CanWrite(p)
        /\ txn' = [txn EXCEPT ![p] = None]
        /\ pc' = [pc EXCEPT ![p] = At("done", 0)]
        /\ reply' = [reply EXCEPT ![p] = [status |-> 500, body |-> <<>>]]
        /\ UNCHANGED <<songs, translations, foreign_keys, resp, req, lock, changed>>

\* Both responses are out.
Finish ==
    /\ \A p \in Procs : pc[p].at = "done"
    /\ pc' = [p \in Procs |-> At("idle", 0)]
    /\ req' = None
    /\ UNCHANGED <<songs, translations, foreign_keys, resp, txn, lock, reply, changed>>

\* The process is started again between requests: startup_event on the kept file.
Restart ==
    /\ \A p \in Procs : pc[p].at = "idle"
    /\ \E f \in DataFiles :
          LET st == startup_event(foreign_keys, db, f)
          IN  songs' = st.songs /\ translations' = st.translations
    /\ UNCHANGED <<foreign_keys, resp, conc>>

ConcNext ==
    \/ Arrive
    \/ UpdateSelect
    \/ UpdateFields
    \/ UpdateUpsert
    \/ UpdateCommit
    \/ UpdateGetSong
    \/ UpdateGetTranslations
    \/ DeleteExecute
    \/ DeleteCommit
    \/ Busy
    \/ Finish
    \/ Restart

ConcSpec == Init /\ [][ConcNext]_vars

(***************************************************************************)
(* Properties.                                                             *)
(***************************************************************************)
\* The rows of table B with song_number s.
RowsOf(B, s) == Where(B, {r \in DOMAIN B : r.song_number = s})
\* The rows of table B of every song but s.
RowsBut(B, s) == Where(B, {r \in DOMAIN B : r.song_number # s})
\* The translations rows of song s in language l.
RowsIn(B, s, l) == Where(B, {r \in DOMAIN B : r.song_number = s /\ r.language = l})
\* The request that resp' answers was taken in this step.
Served(op) == resp = Idle /\ resp'.op = op

\* C1: every translation row's song_number is the song_number of an existing song
\* row, in every reachable state (so none of a deleted song remains).
C1_NoOrphanTranslations ==
    \A r \in DOMAIN translations : HasSong(db, r.song_number)

\* C2: right after a successful create of song s with an empty translations list,
\* get(s) without language returns the submitted song_number, title_ta and text_ta
\* and an empty translations list.
C2_CreateThenGet ==
    (resp.op = "create_song" /\ resp.status = 201 /\ resp.payload[1].translations = <<>>)
        => LET song == resp.payload[1]
               got  == get_song(db, song.song_number, None)
           IN  /\ got.status = 200
               /\ got.body = << Song(song.song_number, song.title_ta, song.text_ta, <<>>) >>

\* C3: a create whose song_number already has a song row answers 400 and leaves both
\* tables exactly as they were.
C3_ConflictLeavesStore ==
    [][(Served("create_song") /\ HasSong(db, resp'.song_number[1]))
          => /\ resp'.status = 400
             /\ songs' = songs
             /\ translations' = translations]_vars

C3_Witness ==
    /\ resp.op = "create_song"
    /\ resp.status = 400
    /\ resp.payload[1].translations # <<>>
    /\ \E r \in DOMAIN songs :
          /\ r.song_number = resp.payload[1].song_number
          /\ r.title_ta # resp.payload[1].title_ta
    /\ ~HasTranslation(db, resp.payload[1].song_number, resp.payload[1].translations[1].language)

\* C4: for a song_number with no song row, get and partial update both answer 404,
\* and the tables are unchanged.
C4_MissingSongNotFound ==
    [][((Served("get_song") \/ Served("update_song")) /\ ~HasSong(db, resp'.song_number[1]))
          => /\ resp'.status = 404
             /\ songs' = songs
             /\ translations' = translations]_vars

C4_Witness ==
    /\ resp.op = "update_song"
    /\ resp.status = 404
    /\ Truthy(resp.payload[1].title_ta)
    /\ TruthyList(resp.payload[1].translations)
    /\ DOMAIN songs # {}

\* The last translation of the list ts that names language l.
LastFor(ts, l) ==
    ts[CHOOSE i \in 1..Len(ts) :
          /\ ts[i].language = l
          /\ \A j \in (i + 1)..Len(ts) : ts[j].language # l]

\* C5: at most one translation row per (song_number, language); after a partial update
\* of an existing song that carries a translation for language l there is exactly one
\* row for (s, l), holding the title and text the request gives for l.
C5_OneRowPerLanguage ==
    /\ \A s \in SongNumbers, l \in Languages :
          BagCardinality(RowsIn(translations, s, l)) <= 1
    /\ (resp.op = "update_song" /\ resp.status = 200 /\ TruthyList(resp.payload[1].translations))
          => LET s  == resp.song_number[1]
                 ts == resp.payload[1].translations[1]
             IN  \A i \in 1..Len(ts) :
                    RowsIn(translations, s, ts[i].language)
                        = SetToBag({TrRow(s, LastFor(ts, ts[i].language))})

C5_Witness ==
    /\ resp.op = "update_song"
    /\ resp.status = 200
    /\ resp.payload[1].translations
          = Some(<<Translation("en", "x", "x"), Translation("en", "y", "y")>>)
    /\ HasTranslation(db, resp.song_number[1], "fr")

\* C6: a partial update of an existing song s changes only what the request supplies:
\* an absent title_ta / text_ta leaves the column, absent translations leave every
\* translation row of s, translations leave the rows of s in languages the request
\* does not name, and s keeps its song_number and every other song all its rows.
C6_UpdateFrame ==
    [][(Served("update_song") /\ resp'.status = 200)
          => LET s     == resp'.song_number[1]
                 song  == resp'.payload[1]
                 named == IF song.translations = None THEN {}
                          ELSE {song.translations[1][i].language :
                                   i \in 1..Len(song.translations[1])}
                 Unnamed(B) == Where(B, {r \in DOMAIN B :
                                            r.song_number = s /\ r.language \notin named})
             IN  /\ RowsBut(songs', s) = RowsBut(songs, s)
                 /\ RowsBut(translations', s) = RowsBut(translations, s)
                 /\ BagCardinality(RowsOf(songs', s)) = 1
                 /\ \A old \in DOMAIN RowsOf(songs, s), new \in DOMAIN RowsOf(songs', s) :
                       /\ song.title_ta = None => new.title_ta = old.title_ta
                       /\ song.text_ta = None => new.text_ta = old.text_ta
                 /\ Unnamed(translations') = Unnamed(translations)]_vars

C6_Witness ==
    /\ resp.op = "update_song"
    /\ resp.status = 200
    /\ resp.payload[1] = SongUpdate(None, Some("a"), None)
    /\ resp.body[1].title_ta = ""
    /\ resp.body[1].text_ta = "a"
    /\ Len(resp.body[1].translations) = 2
    /\ DOMAIN RowsBut(translations, resp.song_number[1]) # {}

\* C7: list returns every song row exactly once; with a language l supplied every
\* returned translation list holds only translations in l and at most one of them;
\* without a language each list holds all the translation rows of its song.
C7_ListFiltered ==
    resp.op = "get_songs"
        => /\ Len(resp.body) = BagCardinality(songs)
           /\ \A r \in DOMAIN songs :
                 Cardinality({i \in 1..Len(resp.body) :
                     SongRow(resp.body[i].song_number, resp.body[i].title_ta,
                             resp.body[i].text_ta) = r}) = 1
           /\ \A i \in 1..Len(resp.body) :
                 LET ts == resp.body[i].translations
                 IN  IF resp.language # None
                     THEN /\ Len(ts) <= 1
                          /\ \A j \in 1..Len(ts) : ts[j].language = resp.language[1]
                     ELSE /\ Len(ts) = BagCardinality(RowsOf(translations, resp.body[i].song_number))
                          /\ \A r \in DOMAIN RowsOf(translations, resp.body[i].song_number) :
                                \E j \in 1..Len(ts) : TrRow(r.song_number, ts[j]) = r

\* C8: the bootstrap loader leaves every row it finds unchanged, adds only rows whose
\* key was absent, and loading the same file again changes nothing.
C8_LoaderInsertIfAbsent ==
    [][Served("startup_event")
          => /\ \A r \in DOMAIN songs : r \in DOMAIN songs' /\ songs'[r] = songs[r]
             /\ \A r \in DOMAIN translations :
                   r \in DOMAIN translations' /\ translations'[r] = translations[r]
             /\ \A r \in DOMAIN songs' \ DOMAIN songs : ~HasSong(db, r.song_number)
             /\ \A r \in DOMAIN translations' \ DOMAIN translations :
                   ~HasTranslation(db, r.song_number, r.language)
             /\ startup_event(foreign_keys, db', resp'.payload) = db']_vars

C8_Witness ==
    /\ resp.op = "startup_event"
    /\ resp.payload
          = Some(<< Song("S1", "a", "a", <<Translation("en", "x", "x"), Translation("fr", "x", "x")>>) >>)
    /\ SongRow("S1", "", "") \in DOMAIN songs
    /\ TrRow("S1", Translation("en", "y", "y")) \in DOMAIN translations
    /\ TrRow("S1", Translation("fr", "x", "x")) \in DOMAIN translations
    /\ HasSong(db, "S2")

\* C9 as stated: when the song insert of a create succeeds and a later translation
\* insert fails, the new song row and the translation rows inserted before the
\* failure remain in the store.
C9_PartialStateRemains ==
    (resp.op = "create_song" /\ resp.status = 500)
        => /\ HasSong(db, resp.payload[1].song_number)
           /\ TrRow(resp.payload[1].song_number, resp.payload[1].translations[1])
                 \in DOMAIN translations

\* C9 as the code behaves: such a create answers with the connection closed before
\* commit, so both tables are as they were and the song has no row.
C9_FailedCreateDiscarded ==
    [][(Served("create_song") /\ resp'.status = 500)
          => /\ songs' = songs
             /\ translations' = translations
             /\ ~HasSong(db', resp'.song_number[1])]_vars

C9_Witness ==
    /\ resp.op = "create_song"
    /\ resp.status = 500
    /\ Len(resp.payload[1].translations) = 2
    /\ resp.payload[1].translations[1].language = resp.payload[1].translations[2].language
    /\ ~HasTranslation(db, resp.payload[1].song_number, resp.payload[1].translations[1].language)

\* C10: with a partial update and a delete of one song_number interleaved, an update
\* that answers 404 has changed nothing in the store, and every translation row has
\* an existing parent song.
C10_NotFoundChangesNothing ==
    /\ (pc["update"].at = "done" /\ reply["update"].status = 404) => ~changed
    /\ \A r \in DOMAIN translations : HasSong(db, r.song_number)

====
